---- MODULE Spec2Model ----
(***************************************************************************)
(* Model of localstack/services/s3/utils.py: the request-validation and    *)
(* addressing helpers of the S3 provider.                                  *)
(*                                                                         *)
(* The module keeps no state of its own.  The model follows one caller     *)
(* that invokes one helper at a time: fn/args/outcome describe the current *)
(* invocation, pc its position, kms_key the local variable of              *)
(* validate_kms_key_id, kms_calls the calls that invocation has issued to  *)
(* the KMS client, and reply what a collaborator (the moto bucket store,   *)
(* the KMS client) answered.    *)
(*                                                                         *)
(* Strings are TLA+ strings; a regular expression is modelled by the set   *)
(* of positions its sub-expressions can end at (position p is "before the  *)
(* p-th character", 1 .. Len(s)+1), following Python's re semantics:       *)
(* re.match anchors at the start, "." does not match a newline, and "$"    *)
(* matches at the end of the string and just before a final newline.       *)
(* \d and \w are modelled on their ASCII members.                          *)
(***************************************************************************)
EXTENDS Integers, Sequences, FiniteSets, TLC

VARIABLES fn, args, pc, outcome, kms_key, kms_calls, reply

vars == <<fn, args, pc, outcome, kms_key, kms_calls, reply>>

(***************************************************************************)
(* Strings and regular-expression primitives                               *)
(***************************************************************************)
Char(s, i) == SubSeq(s, i, i)

RECURSIVE Repeat(_, _)
Repeat(c, n) == IF n = 0 THEN "" ELSE c \o Repeat(c, n - 1)

RECURSIVE Join(_)
Join(seq) == IF seq = <<>> THEN "" ELSE Head(seq) \o Join(Tail(seq))

StringsUpTo(alphabet, n) ==
  UNION {{Join(f) : f \in [1..k -> alphabet]} : k \in 0..n}

Lower == {"a","b","c","d","e","f","g","h","i","j","k","l","m",
          "n","o","p","q","r","s","t","u","v","w","x","y","z"}
Upper == {"A","B","C","D","E","F","G","H","I","J","K","L","M",
          "N","O","P","Q","R","S","T","U","V","W","X","Y","Z"}
Digit == {"0","1","2","3","4","5","6","7","8","9"}
Newline == "\n"
LowerSeq == "abcdefghijklmnopqrstuvwxyz"
UpperSeq == "ABCDEFGHIJKLMNOPQRSTUVWXYZ"

MapChar(c, from, to) ==
  IF \E i \in 1..Len(from) : Char(from, i) = c
  THEN Char(to, CHOOSE i \in 1..Len(from) : Char(from, i) = c)
  ELSE c

RECURSIVE MapString(_, _, _)
MapString(s, from, to) ==
  IF s = "" THEN ""
  ELSE MapChar(Char(s, 1), from, to) \o MapString(SubSeq(s, 2, Len(s)), from, to)

\* str.upper() and str.lower()
upper(s) == MapString(s, LowerSeq, UpperSeq)
lower(s) == MapString(s, UpperSeq, LowerSeq)

\* a literal
Lit(s, w, P) ==
  {p + Len(w) : p \in {q \in P : q + Len(w) - 1 <= Len(s)
                                 /\ SubSeq(s, q, q + Len(w) - 1) = w}}
\* a character class [...]
Cls(s, C, P) == {p + 1 : p \in {q \in P : q <= Len(s) /\ Char(s, q) \in C}}
\* a negated character class [^...]
NotCls(s, C, P) == {p + 1 : p \in {q \in P : q <= Len(s) /\ Char(s, q) \notin C}}
\* "." (without DOTALL)
Dot(s, P) == NotCls(s, {Newline}, P)

\* [...]* : the positions reached from P, extended from the newly reached ones
RECURSIVE ClsRun(_, _, _, _)
ClsRun(s, C, seen, frontier) ==
  IF frontier = {} THEN seen
  ELSE LET step == Cls(s, C, frontier) \ seen
       IN  ClsRun(s, C, seen \cup step, step)
ClsStar(s, C, P) == ClsRun(s, C, P, P)
ClsPlus(s, C, P) == ClsStar(s, C, Cls(s, C, P))

RECURSIVE NotClsRun(_, _, _, _)
NotClsRun(s, C, seen, frontier) ==
  IF frontier = {} THEN seen
  ELSE LET step == NotCls(s, C, frontier) \ seen
       IN  NotClsRun(s, C, seen \cup step, step)
NotClsStar(s, C, P) == NotClsRun(s, C, P, P)
NotClsPlus(s, C, P) == NotClsStar(s, C, NotCls(s, C, P))

\* "$" without MULTILINE: the end of the string, or just before a final newline
AtEnd(s, p) == p = Len(s) + 1 \/ (p = Len(s) /\ Char(s, p) = Newline)
\* a lookahead (?=...) / (?!...) for a literal at position p
LookingAt(s, w, p) == Lit(s, w, {p}) # {}

(***************************************************************************)
(* BUCKET_NAME_REGEX and is_bucket_name_valid                              *)
(***************************************************************************)
BucketMinLen == 3
BucketMaxLen == 63

AlnumLower == Lower \cup Digit

\* .{lo,hi} from the positions P
RECURSIVE DotTimes(_, _, _, _)
DotTimes(s, P, lo, hi) ==
  IF hi = 0 \/ P = {} THEN (IF lo <= 0 THEN P ELSE {})
  ELSE (IF lo <= 0 THEN P ELSE {}) \cup DotTimes(s, Dot(s, P), lo - 1, hi - 1)

\* (?=^.{3,63}$)
LengthLookahead(s) ==
  \E p \in DotTimes(s, {1}, BucketMinLen, BucketMaxLen) : AtEnd(s, p)

\* (\d+\.)+ from the positions P
RECURSIVE DigitsDotPlus(_, _)
DigitsDotPlus(s, P) ==
  LET Q == Lit(s, ".", ClsPlus(s, Digit, P))
  IN  IF Q = {} THEN {} ELSE Q \cup DigitsDotPlus(s, Q)

\* (?!^(\d+\.)+\d+$) : TRUE when the lookahead's pattern matches
NumericLookahead(s) ==
  \E p \in ClsPlus(s, Digit, DigitsDotPlus(s, {1})) : AtEnd(s, p)

\* ([a-z0-9]|[a-z0-9][a-z0-9\-]*[a-z0-9])
Label(s, P) ==
  Cls(s, AlnumLower, P)
    \cup Cls(s, AlnumLower, ClsStar(s, AlnumLower \cup {"-"}, Cls(s, AlnumLower, P)))

\* (label\.)* from the positions P
RECURSIVE LabelDotRun(_, _, _)
LabelDotRun(s, seen, frontier) ==
  IF frontier = {} THEN seen
  ELSE LET step == Lit(s, ".", Label(s, frontier)) \ seen
       IN  LabelDotRun(s, seen \cup step, step)
LabelDotStar(s, P) == LabelDotRun(s, P, P)

\* (^(label\.)*label$)
LabelsMatch(s) == \E p \in Label(s, LabelDotStar(s, {1})) : AtEnd(s, p)

BUCKET_NAME_REGEX(s) ==
  LengthLookahead(s) /\ ~NumericLookahead(s) /\ LabelsMatch(s)

is_bucket_name_valid(bucket_name) ==
  IF BUCKET_NAME_REGEX(bucket_name) THEN TRUE ELSE FALSE

(***************************************************************************)
(* S3_VIRTUAL_HOSTNAME_REGEX and                                           *)
(* forwarded_from_virtual_host_addressed_request                           *)
(***************************************************************************)
S3_VIRTUAL_HOST_FORWARDED_HEADER == "x-s3-vhost-forwarded-for"
PortMaxDigits == 6

WordChar == Lower \cup Upper \cup Digit \cup {"_"}

\* dict.get(key, default)
Get(d, key, default) == IF key \in DOMAIN d THEN d[key] ELSE default

\* REGION_REGEX: [a-z]{2}-[a-z]+-[0-9]{1,}
REGION_REGEX(s, P) ==
  ClsPlus(s, Digit,
    Lit(s, "-", ClsPlus(s, Lower, Lit(s, "-", Cls(s, Lower, Cls(s, Lower, P))))))

\* ({REGION_REGEX}\.)?
OptRegionDot(s, P) == P \cup Lit(s, ".", REGION_REGEX(s, P))

\* [\d]{0,n}
RECURSIVE DigitsUpTo(_, _, _)
DigitsUpTo(s, P, n) ==
  IF n = 0 \/ P = {} THEN P ELSE P \cup DigitsUpTo(s, Cls(s, Digit, P), n - 1)

\* PORT_REGEX: (:[\d]{0,6})?
PORT_REGEX(s, P) == P \cup DigitsUpTo(s, Lit(s, ":", P), PortMaxDigits)

\* (http(s)?://)?
SchemePart(s, P) ==
  LET h == Lit(s, "http", P) IN P \cup Lit(s, "://", h \cup Lit(s, "s", h))

\* group 3: ((?!s3\.)[^\./]+)
BucketGroup(s, P) ==
  NotClsPlus(s, {".", "/"}, {p \in P : ~LookingAt(s, "s3.", p)})

\* ((s3(-website)?\.({REGION}\.)?)localhost(\.localstack\.cloud)?)
LocalhostHost(s, P) ==
  LET a == Lit(s, "s3", P)
      b == Lit(s, ".", a \cup Lit(s, "-website", a))
      c == Lit(s, "localhost", OptRegionDot(s, b))
  IN  c \cup Lit(s, ".localstack.cloud", c)

\* (localhost\.localstack\.cloud)
LocalstackHost(s, P) == Lit(s, "localhost.localstack.cloud", P)

\* (s3((-website)|(-external-1))?[\.-](dualstack\.)?({REGION}\.)?amazonaws\.com(.cn)?)
\* the "." of (.cn)? is not escaped: it is the any-character dot
AmazonHost(s, P) ==
  LET a == Lit(s, "s3", P)
      b == Cls(s, {".", "-"}, a \cup Lit(s, "-website", a) \cup Lit(s, "-external-1", a))
      c == OptRegionDot(s, b \cup Lit(s, "dualstack.", b))
      d == Lit(s, "amazonaws.com", c)
  IN  d \cup Lit(s, "cn", Dot(s, d))

\* (/[\w\-. ]*)*
RECURSIVE PathRun(_, _, _)
PathRun(s, seen, frontier) ==
  IF frontier = {} THEN seen
  ELSE LET step == ClsStar(s, WordChar \cup {"-", ".", " "}, Lit(s, "/", frontier)) \ seen
       IN  PathRun(s, seen \cup step, step)
PathPart(s, P) == PathRun(s, P, P)

\* the end positions of group 3 in the matches of the whole expression
Group3Ends(s) ==
  {g \in BucketGroup(s, SchemePart(s, {1})) :
     LET h == Lit(s, ".", {g})
         host == LocalhostHost(s, h) \cup LocalstackHost(s, h) \cup AmazonHost(s, h)
     IN  \E p \in PathPart(s, PORT_REGEX(s, host)) : AtEnd(s, p)}

\* re.match(S3_VIRTUAL_HOSTNAME_REGEX, s): whether it matches, and whether
\* group 3 is a non-empty string (it starts after the scheme, if any)
S3_VIRTUAL_HOSTNAME_REGEX(s) ==
  [matched |-> Group3Ends(s) # {},
   group3  |-> \E g \in Group3Ends(s) : \E b \in SchemePart(s, {1}) : b < g]

forwarded_from_virtual_host_addressed_request(headers) ==
  LET match == S3_VIRTUAL_HOSTNAME_REGEX(Get(headers, S3_VIRTUAL_HOST_FORWARDED_HEADER, ""))
  IN  IF match.matched /\ match.group3 THEN TRUE ELSE FALSE

(***************************************************************************)
(* VALID_CANNED_ACLS_BUCKET and is_canned_acl_bucket_valid                 *)
(***************************************************************************)
ObjectCannedACL ==
  [private                   |-> "private",
   public_read               |-> "public-read",
   public_read_write         |-> "public-read-write",
   authenticated_read        |-> "authenticated-read",
   aws_exec_read             |-> "aws-exec-read",
   bucket_owner_read         |-> "bucket-owner-read",
   bucket_owner_full_control |-> "bucket-owner-full-control"]

BucketCannedACL ==
  [private            |-> "private",
   public_read        |-> "public-read",
   public_read_write  |-> "public-read-write",
   authenticated_read |-> "authenticated-read",
   log_delivery_write |-> "log-delivery-write"]

VALID_CANNED_ACLS_BUCKET ==
  {ObjectCannedACL.private,
   ObjectCannedACL.authenticated_read,
   ObjectCannedACL.aws_exec_read,
   ObjectCannedACL.bucket_owner_full_control,
   ObjectCannedACL.bucket_owner_read,
   ObjectCannedACL.public_read,
   ObjectCannedACL.public_read_write,
   BucketCannedACL.log_delivery_write}

\* mutant: the token is case-folded before the lookup
is_canned_acl_bucket_valid_CaseFolded(canned_acl) ==
  lower(canned_acl) \in VALID_CANNED_ACLS_BUCKET

is_canned_acl_bucket_valid(canned_acl) == canned_acl \in VALID_CANNED_ACLS_BUCKET

(***************************************************************************)
(* Outcomes of an invocation                                               *)
(***************************************************************************)
None == <<"None">>
Return(v) == [kind |-> "return", value |-> v]
Raise(e) == [kind |-> "raise", exc |-> e]
\* no exception is propagating
NoException == [kind |-> "none"]

(***************************************************************************)
(* Errors                                                                  *)
(***************************************************************************)
\* class InvalidRequest(ServiceException)
InvalidRequest(message) ==
  [type         |-> "InvalidRequest",
   code         |-> "InvalidRequest",
   sender_fault |-> FALSE,
   status_code  |-> 400,
   message      |-> message]

\* localstack.aws.api.CommonServiceException(code, message)
CommonServiceException(code, message) ==
  [type         |-> "CommonServiceException",
   code         |-> code,
   sender_fault |-> FALSE,
   status_code  |-> 400,
   message      |-> message]

\* localstack.aws.api.s3.NoSuchBucket / NoSuchKey, before their field is set
NoSuchBucket(message) ==
  [type |-> "NoSuchBucket", code |-> "NoSuchBucket", sender_fault |-> FALSE,
   status_code |-> 404, message |-> message, BucketName |-> None]
NoSuchKey(message) ==
  [type |-> "NoSuchKey", code |-> "NoSuchKey", sender_fault |-> FALSE,
   status_code |-> 404, message |-> message, Key |-> None]

\* moto.s3.exceptions.MissingBucket
MissingBucket == [type |-> "MissingBucket", message |-> "The specified bucket does not exist"]

\* botocore.exceptions.ClientError with its error response
ClientError(code, message) ==
  [type |-> "ClientError", response |-> [Error |-> [Code |-> code, Message |-> message]]]

(***************************************************************************)
(* get_object_checksum_for_algorithm and verify_checksum                   *)
(***************************************************************************)
ChecksumAlgorithm ==
  [CRC32 |-> "CRC32", CRC32C |-> "CRC32C", SHA1 |-> "SHA1", SHA256 |-> "SHA256"]

\* localstack.utils.strings: the digest of the payload under each algorithm,
\* kept as the pair of the algorithm and the payload it digests
checksum_crc32(data) == <<"crc32", data>>
checksum_crc32c(data) == <<"crc32c", data>>
hash_sha1(data) == <<"sha1", data>>
hash_sha256(data) == <<"sha256", data>>

get_object_checksum_for_algorithm(checksum_algorithm, data) ==
  CASE checksum_algorithm = ChecksumAlgorithm.CRC32  -> Return(checksum_crc32(data))
    [] checksum_algorithm = ChecksumAlgorithm.CRC32C -> Return(checksum_crc32c(data))
    [] checksum_algorithm = ChecksumAlgorithm.SHA1   -> Return(hash_sha1(data))
    [] checksum_algorithm = ChecksumAlgorithm.SHA256 -> Return(hash_sha256(data))
    [] OTHER ->
         Raise(InvalidRequest("The value specified in the x-amz-trailer header is not supported"))

\* mutant: a missing declared value is not compared
verify_checksum_MissingAccepted(checksum_algorithm, data, request) ==
  LET key == "Checksum" \o upper(checksum_algorithm)
      calculated_checksum == get_object_checksum_for_algorithm(checksum_algorithm, data)
  IN  IF calculated_checksum.kind = "raise" THEN calculated_checksum
      ELSE IF key \in DOMAIN request /\ calculated_checksum.value # request[key]
           THEN Raise(InvalidRequest("Value for x-amz-checksum-"
                                       \o lower(checksum_algorithm) \o " header is invalid."))
           ELSE Return(None)

verify_checksum(checksum_algorithm, data, request) ==
  LET key == "Checksum" \o upper(checksum_algorithm)
      checksum == Get(request, key, None)
      calculated_checksum == get_object_checksum_for_algorithm(checksum_algorithm, data)
  IN  IF calculated_checksum.kind = "raise" THEN calculated_checksum
      ELSE IF calculated_checksum.value # checksum
           THEN Raise(InvalidRequest("Value for x-amz-checksum-"
                                       \o lower(checksum_algorithm) \o " header is invalid."))
           ELSE Return(None)

(***************************************************************************)
(* get_bucket_from_moto and get_key_from_moto_bucket                       *)
(***************************************************************************)
FakeKey(name, value) == <<"FakeKey", name, value>>

\* moto_backend.get_bucket(bucket_name=bucket): the bucket, MissingBucket when
\* the store has none of that name, or another error of the store
OtherStoreErrors ==
  {[type |-> "InvalidBucketName", message |-> "The specified bucket is not valid."],
   [type |-> "RuntimeError", message |-> "backend unavailable"]}
MotoGetBucket(moto_backend, bucket) ==
  (IF bucket \in DOMAIN moto_backend
   THEN {Return(moto_backend[bucket])}
   ELSE {Raise(MissingBucket)})
    \cup {Raise(e) : e \in OtherStoreErrors}

\* mutant: every error of the store is reported as a missing bucket
get_bucket_from_moto_AnyError(store_reply, bucket) ==
  IF store_reply.kind = "raise"
  THEN Raise([NoSuchBucket("The specified bucket does not exist") EXCEPT !.BucketName = bucket])
  ELSE store_reply

get_bucket_from_moto(store_reply, bucket) ==
  IF store_reply.kind = "raise" /\ store_reply.exc.type = "MissingBucket"
  THEN Raise([NoSuchBucket("The specified bucket does not exist") EXCEPT !.BucketName = bucket])
  ELSE store_reply

\* "not fake_key" is the absence of the key: a FakeKey object is always true
get_key_from_moto_bucket(moto_bucket, key) ==
  LET fake_key == Get(moto_bucket.keys, key, None)
  IN  IF fake_key = None
      THEN Raise([NoSuchKey("The specified key does not exist.") EXCEPT !.Key = key])
      ELSE Return(fake_key)

(***************************************************************************)
(* validate_kms_key_id                                                     *)
(***************************************************************************)
\* str.split(sep, maxsplit)
RECURSIVE Split(_, _, _)
Split(s, sep, maxsplit) ==
  IF maxsplit = 0 \/ \A i \in 1..Len(s) : Char(s, i) # sep THEN <<s>>
  ELSE LET i == CHOOSE j \in 1..Len(s) :
                  Char(s, j) = sep /\ \A k \in 1..(j - 1) : Char(s, k) # sep
       IN  <<SubSeq(s, 1, i - 1)>> \o Split(SubSeq(s, i + 1, Len(s)), sep, maxsplit - 1)

\* localstack.utils.aws.arns.parse_arn: arn:partition:service:region:account:resource;
\* ok is FALSE where it raises InvalidArnException
parse_arn(arn) ==
  LET parts == Split(arn, ":", 5)
  IN  IF Len(parts) < 6
      THEN [ok |-> FALSE, region |-> "", account |-> "", resource |-> ""]
      ELSE [ok |-> TRUE, region |-> parts[4], account |-> parts[5], resource |-> parts[6]]

\* localstack.utils.aws.arns.kms_key_arn
kms_key_arn(key_id, account_id, region_name) ==
  "arn:aws:kms:" \o region_name \o ":" \o account_id \o ":key/" \o key_id

\* mutant: the region of the key is not compared with the bucket's
validate_kms_key_id_resolve_NoRegionCheck(key, bucket) ==
  IF parse_arn(key).ok
  THEN [raised |-> NoException, kms_key |-> key]
  ELSE [raised  |-> NoException,
        kms_key |-> kms_key_arn(key, bucket.account_id, bucket.region_name)]

\* mutant: the ARN of a bare key id is built with the account and the region swapped
validate_kms_key_id_resolve_SwappedArn(key, bucket) ==
  LET parsed_arn == parse_arn(key)
  IN  IF parsed_arn.ok
      THEN IF parsed_arn.region # bucket.region_name
           THEN [raised  |-> Raise(CommonServiceException("KMS.NotFoundException",
                                                          "Invalid arn " \o parsed_arn.region)),
                 kms_key |-> key]
           ELSE [raised |-> NoException, kms_key |-> key]
      ELSE [raised  |-> NoException,
            kms_key |-> kms_key_arn(key, bucket.region_name, bucket.account_id)]

\* lines 233-249: the invocation up to the KMS client.  raised is the exception
\* leaving the try block (NoException when there is none), kms_key the local variable
\* as it stands afterwards
validate_kms_key_id_resolve(key, bucket) ==
  LET parsed_arn == parse_arn(key)
      key_region == parsed_arn.region
  IN  IF parsed_arn.ok
      THEN IF key_region # bucket.region_name
           THEN [raised  |-> Raise(CommonServiceException("KMS.NotFoundException",
                                                          "Invalid arn " \o key_region)),
                 kms_key |-> key]
           ELSE [raised |-> NoException, kms_key |-> key]
      ELSE [raised  |-> NoException,
            kms_key |-> kms_key_arn(key, bucket.account_id, bucket.region_name)]

\* lines 252-254: the call handed to the KMS client of the bucket's region
describe_key_call(key, bucket) ==
  [service |-> "kms", region_name |-> bucket.region_name,
   operation |-> "describe_key", KeyId |-> key]

\* mutant: every ClientError is reported as a missing key
validate_kms_key_id_result_AnyClientError(kms_reply) ==
  IF kms_reply.kind = "raise" /\ kms_reply.exc.type = "ClientError"
  THEN Raise(CommonServiceException("KMS.NotFoundException",
                                    kms_reply.exc.response.Error.Message))
  ELSE IF kms_reply.kind = "raise" THEN kms_reply
  ELSE Return(None)

\* lines 253-260: what the invocation makes of the client's answer
validate_kms_key_id_result(kms_reply) ==
  IF kms_reply.kind = "raise" /\ kms_reply.exc.type = "ClientError"
  THEN IF kms_reply.exc.response.Error.Code = "NotFoundException"
       THEN Raise(CommonServiceException("KMS.NotFoundException",
                                         kms_reply.exc.response.Error.Message))
       ELSE kms_reply
  ELSE IF kms_reply.kind = "raise" THEN kms_reply
  ELSE Return(None)

(***************************************************************************)
(* is_valid_canonical_id                                                   *)
(***************************************************************************)
CanonicalIdLen == 64

HexDigit == Digit \cup {"a","b","c","d","e","f","A","B","C","D","E","F"}
Whitespace == {" ", "\t", Newline, "\r", "\f"}

RECURSIVE LStrip(_)
LStrip(s) ==
  IF s # "" /\ Char(s, 1) \in Whitespace THEN LStrip(SubSeq(s, 2, Len(s))) ELSE s
RECURSIVE RStrip(_)
RStrip(s) ==
  IF s # "" /\ Char(s, Len(s)) \in Whitespace THEN RStrip(SubSeq(s, 1, Len(s) - 1)) ELSE s

\* (_?[0-9a-fA-F])* from the positions P
RECURSIVE HexDigitsRun(_, _, _)
HexDigitsRun(s, seen, frontier) ==
  IF frontier = {} THEN seen
  ELSE LET step == Cls(s, HexDigit, frontier \cup Lit(s, "_", frontier)) \ seen
       IN  HexDigitsRun(s, seen \cup step, step)
HexDigitsStar(s, P) == HexDigitsRun(s, P, P)

\* int(x, 16): surrounding whitespace is stripped; then an optional sign, an
\* optional 0x/0X prefix (which an underscore may follow), and hex digits
\* separated by single underscores.  The value is only used for its truth
\* value: zero is TRUE when it is 0.
int16(x) ==
  LET t      == RStrip(LStrip(x))
      signed == {1} \cup Cls(t, {"+", "-"}, {1})
      prefix == Cls(t, {"x", "X"}, Lit(t, "0", signed))
      start  == signed \cup prefix \cup Lit(t, "_", prefix)
      ends   == HexDigitsStar(t, Cls(t, HexDigit, start))
  IN  [ok   |-> (Len(t) + 1) \in ends,
       zero |-> \A i \in 1..Len(t) : Char(t, i) \in {"0", "_", "+", "-", "x", "X"}]

\* int(canonical_id, 16) and len(canonical_id) == 64; ValueError -> False
is_valid_canonical_id(canonical_id) ==
  LET v == int16(canonical_id)
  IN  IF ~v.ok THEN Return("False")
      ELSE IF v.zero THEN Return("0")
      ELSE Return(IF Len(canonical_id) = CanonicalIdLen THEN "True" ELSE "False")

\* Python truth value of a returned object
Truthy(v) == v \notin {"False", "0"}

(***************************************************************************)
(* Inputs                                                                  *)
(***************************************************************************)
MaxNameLen == 3
BucketAlphabet == {"a", "1", "-", ".", "A", Newline}
LongTails == StringsUpTo({"a", "1", ".", Newline}, 2)
BucketNames ==
  StringsUpTo(BucketAlphabet, MaxNameLen)
    \cup {"192.168.1.1", "999.999.999.999", "my-bucket.example", "1.2.3.4.5",
          "10.20.30", "my.bucket-1", "a.1.2.3.4"}
    \cup {Repeat("a", n) \o t : n \in (BucketMaxLen - 2)..BucketMaxLen, t \in LongTails}
    \cup {Repeat("1", BucketMaxLen - 6) \o t : t \in {".2.3.4", ".2.3.4" \o Newline, "1.2.3.4"}}

AclVariants(t) ==
  {t, upper(t), " " \o t, t \o " ", t \o Newline, upper(Char(t, 1)) \o SubSeq(t, 2, Len(t)),
   MapString(t, "-", "_"), SubSeq(t, 1, Len(t) - 1), t \o "s"}
AclTokens ==
  UNION {AclVariants(t) : t \in VALID_CANNED_ACLS_BUCKET}
    \cup {"", "public", "FULL_CONTROL", "READ", "bucket-owner", "log-delivery",
          "privatepublic-read", "private,public-read"}

IdLeads == {"", "+", "-", "0x", "0X", " ", "_", "g", "-0x", "0x_"}
IdFills == {"0", "a", "F"}
IdMids  == {"", "_", "__"}
IdTails == {"", " ", Newline, "_", "g"}
IdSlack == 1
CanonicalIds ==
  {"", "0", "ff", "0x", "-", "_"}
    \cup {lead \o Repeat(f, h) \o mid \o Repeat(f, n - h - Len(lead) - Len(mid) - Len(tail)) \o tail :
            lead \in IdLeads, f \in IdFills, mid \in IdMids, tail \in IdTails,
            h \in {20}, n \in (CanonicalIdLen - IdSlack)..(CanonicalIdLen + IdSlack)}

Regions == {"us-east-1", "eu-west-1"}
VhostSchemes == {"", "http://", "https://"}
VhostLabels == {"my-bucket", "s3", "s3x", "", "a.b", "a:b"}
VhostHosts ==
  {"s3.amazonaws.com", "s3.us-east-1.amazonaws.com", "s3-us-east-1.amazonaws.com",
   "s3.dualstack.eu-west-1.amazonaws.com", "s3-website.us-east-1.amazonaws.com",
   "s3-external-1.amazonaws.com", "s3.amazonaws.com.cn", "s3.amazonaws.comXcn",
   "s3.localhost", "s3.us-east-1.localhost.localstack.cloud",
   "s3-website.localhost.localstack.cloud", "localhost.localstack.cloud",
   "amazonaws.com", "example.com", "s3.us-east.amazonaws.com"}
VhostPorts == {"", ":4566", ":1234567"}
VhostPaths == {"", "/my-bucket/key", "/k?x", "/key" \o Newline}
ForwardedValues ==
  {scheme \o label \o "." \o host \o port \o path :
     scheme \in VhostSchemes, label \in VhostLabels, host \in VhostHosts,
     port \in VhostPorts, path \in VhostPaths}
    \cup {"", "my-bucket", "https://", "my-bucket.s3.amazonaws.com:", Newline}
LiveHosts == {"s3.amazonaws.com", "my-bucket.s3.amazonaws.com"}
RequestHeaders ==
  {[h \in {"host"} |-> live] : live \in LiveHosts}
    \cup {[h \in {"host", S3_VIRTUAL_HOST_FORWARDED_HEADER} |->
             IF h = "host" THEN live ELSE fwd] :
             live \in {"s3.amazonaws.com"}, fwd \in ForwardedValues}
    \cup {[h \in {"host", S3_VIRTUAL_HOST_FORWARDED_HEADER} |->
             IF h = "host" THEN live ELSE label \o "." \o host] :
             live \in LiveHosts, label \in VhostLabels, host \in VhostHosts}

MaxDataLen == 1
Payloads == UNION {[1..k -> {0, 255}] : k \in 0..MaxDataLen}
Algorithms == {"CRC32", "CRC32C", "SHA1", "SHA256", "MD5", "crc32", "sha256", ""}
DeclaredValues ==
  {checksum_crc32(d) : d \in Payloads} \cup {checksum_crc32c(d) : d \in Payloads}
    \cup {hash_sha1(d) : d \in Payloads} \cup {hash_sha256(d) : d \in Payloads}
    \cup {<<"bogus", <<>> >>}
ChecksumFields ==
  {"ChecksumSHA1", "ChecksumSHA256", "ChecksumCRC32", "ChecksumCRC32C", "ChecksumMD5"}
ChecksumRequests ==
  {[k \in {} |-> None]}
    \cup {[k \in {field} |-> v] : field \in ChecksumFields, v \in DeclaredValues}

StoreBucketNames == {"b1", "b2"}
StoreKeys == {"k1", "k2"}
StoreBuckets ==
  {[name |-> n, keys |-> [k \in ks |-> FakeKey(k, n \o "/" \o k)]] :
     n \in StoreBucketNames, ks \in SUBSET StoreKeys}
MotoBackends ==
  UNION {{b \in [ns -> StoreBuckets] : \A n \in ns : b[n].name = n} :
           ns \in SUBSET StoreBucketNames}

Accounts == {"123456789012", "000000000000"}
KmsBuckets ==
  {[name |-> "b1", region_name |-> r, account_id |-> a] : r \in Regions, a \in Accounts}
KeyIds == {"1234abcd-12ab-34cd-56ef-1234567890ab", "alias/my-key"}
KmsKeys ==
  KeyIds
    \cup {kms_key_arn(k, a, r) : k \in {"1234abcd-12ab-34cd-56ef-1234567890ab"},
                                 a \in Accounts, r \in Regions \cup {"", "ap-south-1"}}
    \cup {"arn:aws:kms", "", "arn:aws:kms:us-east-1:123456789012"}
KmsMessages == {"Key 'k' does not exist", "not authorized"}
KmsReplies ==
  {Return([KeyMetadata |-> "metadata"])}
    \cup {Raise(ClientError(c, m)) :
            c \in {"NotFoundException", "AccessDeniedException", "KMSInternalException",
                   "KMS.NotFoundException"},
            m \in KmsMessages}
    \cup {Raise([type |-> ty, message |-> "no answer"]) :
            ty \in {"ReadTimeoutError", "CancelledError"}}

Init ==
  /\ fn = "none"
  /\ args = None
  /\ pc = "idle"
  /\ outcome = None
  /\ kms_key = ""
  /\ kms_calls = <<>>
  /\ reply = None

\* A helper without collaborators runs to completion in one step.  The caller
\* issues its next call once the previous one has come back (pc = "idle").
IsBucketNameValid ==
  \E name \in BucketNames :
    /\ pc = "idle"
    /\ fn' = "is_bucket_name_valid"
    /\ args' = name
    /\ outcome' = Return(is_bucket_name_valid(name))
    /\ pc' = "done"
    /\ UNCHANGED <<kms_key, kms_calls, reply>>

IsCannedAclBucketValid ==
  \E token \in AclTokens :
    /\ pc = "idle"
    /\ fn' = "is_canned_acl_bucket_valid"
    /\ args' = token
    /\ outcome' = Return(is_canned_acl_bucket_valid(token))
    /\ pc' = "done"
    /\ UNCHANGED <<kms_key, kms_calls, reply>>

IsValidCanonicalId ==
  \E id \in CanonicalIds :
    /\ pc = "idle"
    /\ fn' = "is_valid_canonical_id"
    /\ args' = id
    /\ outcome' = is_valid_canonical_id(id)
    /\ pc' = "done"
    /\ UNCHANGED <<kms_key, kms_calls, reply>>

ForwardedFromVirtualHostAddressedRequest ==
  \E headers \in RequestHeaders :
    /\ pc = "idle"
    /\ fn' = "forwarded_from_virtual_host_addressed_request"
    /\ args' = headers
    /\ outcome' = Return(forwarded_from_virtual_host_addressed_request(headers))
    /\ pc' = "done"
    /\ UNCHANGED <<kms_key, kms_calls, reply>>

VerifyChecksum ==
  \E algorithm \in Algorithms, data \in Payloads, request \in ChecksumRequests :
    /\ pc = "idle"
    /\ fn' = "verify_checksum"
    /\ args' = [checksum_algorithm |-> algorithm, data |-> data, request |-> request]
    /\ outcome' = verify_checksum(algorithm, data, request)
    /\ pc' = "done"
    /\ UNCHANGED <<kms_key, kms_calls, reply>>

GetBucketFromMoto ==
  \E moto_backend \in MotoBackends, bucket \in StoreBucketNames \cup {"b3"} :
    \E store_reply \in MotoGetBucket(moto_backend, bucket) :
      /\ pc = "idle"
      /\ fn' = "get_bucket_from_moto"
      /\ args' = [moto_backend |-> moto_backend, bucket |-> bucket]
      /\ reply' = store_reply
      /\ outcome' = get_bucket_from_moto(store_reply, bucket)
      /\ pc' = "done"
      /\ UNCHANGED <<kms_key, kms_calls>>

GetKeyFromMotoBucket ==
  \E moto_bucket \in StoreBuckets, key \in StoreKeys \cup {"k3", ""} :
    /\ pc = "idle"
    /\ fn' = "get_key_from_moto_bucket"
    /\ args' = [moto_bucket |-> moto_bucket, key |-> key]
    /\ outcome' = get_key_from_moto_bucket(moto_bucket, key)
    /\ pc' = "done"
    /\ UNCHANGED <<kms_key, kms_calls, reply>>

\* validate_kms_key_id up to its first effect: the exception of the region
\* check, or the describe_key call handed to the KMS client
ValidateKmsKeyId ==
  \E key \in KmsKeys, bucket \in KmsBuckets :
    LET r == validate_kms_key_id_resolve(key, bucket)
    IN  /\ pc = "idle"
        /\ fn' = "validate_kms_key_id"
        /\ args' = [kms_key |-> key, bucket |-> bucket]
        /\ kms_key' = r.kms_key
        /\ IF r.raised.kind = "raise"
           THEN /\ outcome' = r.raised
                /\ pc' = "done"
                /\ UNCHANGED kms_calls
           ELSE /\ kms_calls' = Append(kms_calls, describe_key_call(r.kms_key, bucket))
                /\ pc' = "describe_key"
                /\ UNCHANGED outcome
        /\ UNCHANGED reply

\* the KMS client answers, and validate_kms_key_id returns or raises
DescribeKeyReturns ==
  \E kms_reply \in KmsReplies :
    /\ pc = "describe_key"
    /\ reply' = kms_reply
    /\ outcome' = validate_kms_key_id_result(kms_reply)
    /\ pc' = "done"
    /\ UNCHANGED <<fn, args, kms_key, kms_calls>>

\* the caller takes the outcome; nothing of the invocation is kept
Finish ==
  /\ pc = "done"
  /\ fn' = "none"
  /\ args' = None
  /\ pc' = "idle"
  /\ outcome' = None
  /\ kms_key' = ""
  /\ kms_calls' = <<>>
  /\ reply' = None

Next ==
  \/ IsBucketNameValid
  \/ IsCannedAclBucketValid
  \/ IsValidCanonicalId
  \/ ForwardedFromVirtualHostAddressedRequest
  \/ VerifyChecksum
  \/ GetBucketFromMoto
  \/ GetKeyFromMotoBucket
  \/ ValidateKmsKeyId
  \/ DescribeKeyReturns
  \/ Finish

Spec == Init /\ [][Next]_vars

(***************************************************************************)
(* Properties                                                              *)
(***************************************************************************)
Returned == pc = "done" /\ outcome.kind = "return"
Raised == pc = "done" /\ outcome.kind = "raise"
EndsWith(s, w) == Len(w) <= Len(s) /\ SubSeq(s, Len(s) - Len(w) + 1, Len(s)) = w

\* the key reference of the running validate_kms_key_id parses as an ARN of
\* another region than the bucket's
RegionMismatch ==
  /\ fn = "validate_kms_key_id"
  /\ parse_arn(args.kms_key).ok
  /\ parse_arn(args.kms_key).region # args.bucket.region_name

\* C1: when the key reference parses as an ARN whose region differs from the
\* bucket's, validate_kms_key_id has failed with a CommonServiceException of
\* code KMS.NotFoundException whose message carries that region, and no call
\* has been issued to KMS.
C1_RegionMismatchFailsWithoutKmsCall ==
  RegionMismatch =>
    /\ Raised
    /\ outcome.exc.type = "CommonServiceException"
    /\ outcome.exc.code = "KMS.NotFoundException"
    /\ EndsWith(outcome.exc.message, parse_arn(args.kms_key).region)
    /\ kms_calls = <<>>

C1_Witness ==
  /\ RegionMismatch
  /\ Raised
  /\ parse_arn(args.kms_key).region = "us-east-1"
  /\ args.bucket.region_name = "eu-west-1"

\* C2: an invocation of validate_kms_key_id that the region check does not
\* stop has issued exactly one call, a describe_key, before and after the
\* answer whatever the answer is; its KeyId is the supplied ARN for an ARN,
\* and for a bare key id an ARN of the bucket's region and account naming
\* that key.
C2_ExactlyOneDescribeKey ==
  (fn = "validate_kms_key_id" /\ ~RegionMismatch) =>
    /\ pc \in {"describe_key", "done"}
    /\ Len(kms_calls) = 1
    /\ kms_calls[1].operation = "describe_key"
    /\ IF parse_arn(args.kms_key).ok
       THEN kms_calls[1].KeyId = args.kms_key
       ELSE LET sent == parse_arn(kms_calls[1].KeyId)
            IN  /\ sent.ok
                /\ sent.region = args.bucket.region_name
                /\ sent.account = args.bucket.account_id
                /\ sent.resource = "key/" \o args.kms_key

C2_Witness ==
  /\ fn = "validate_kms_key_id"
  /\ ~parse_arn(args.kms_key).ok
  /\ Raised
  /\ outcome.exc.type = "ReadTimeoutError"
  /\ Len(kms_calls) = 1
  /\ args.bucket.region_name = "eu-west-1"
  /\ args.bucket.account_id = "123456789012"

\* the KMS client has answered the describe_key call with an error
DescribeKeyFailed ==
  fn = "validate_kms_key_id" /\ pc = "done" /\ Len(kms_calls) = 1 /\ reply.kind = "raise"

\* C3: when describe_key fails, a ClientError of code NotFoundException
\* reaches the caller as a CommonServiceException of code
\* KMS.NotFoundException with the same message, and any other error reaches
\* the caller as it is.
C3_DescribeKeyErrors ==
  DescribeKeyFailed =>
    IF reply.exc.type = "ClientError" /\ reply.exc.response.Error.Code = "NotFoundException"
    THEN /\ Raised
         /\ outcome.exc.type = "CommonServiceException"
         /\ outcome.exc.code = "KMS.NotFoundException"
         /\ outcome.exc.message = reply.exc.response.Error.Message
    ELSE outcome = reply

C3_Witness ==
  /\ DescribeKeyFailed
  /\ reply.exc.type = "ClientError"
  /\ reply.exc.response.Error.Code = "AccessDeniedException"
  /\ outcome = reply

SupportedAlgorithms == {"CRC32", "CRC32C", "SHA1", "SHA256"}
DigestOf(algorithm, data) ==
  CASE algorithm = "CRC32"  -> checksum_crc32(data)
    [] algorithm = "CRC32C" -> checksum_crc32c(data)
    [] algorithm = "SHA1"   -> hash_sha1(data)
    [] algorithm = "SHA256" -> hash_sha256(data)

\* C4: verify_checksum returns exactly when the algorithm is one of CRC32,
\* CRC32C, SHA1, SHA256 and the request declares, under Checksum<ALGORITHM>,
\* that algorithm's digest of the data; otherwise it raises InvalidRequest.
C4_VerifyChecksum ==
  fn = "verify_checksum" =>
    LET a == args.checksum_algorithm
        field == "Checksum" \o a
        declared == /\ a \in SupportedAlgorithms
                    /\ field \in DOMAIN args.request
                    /\ args.request[field] = DigestOf(a, args.data)
    IN  IF declared THEN Returned
        ELSE Raised /\ outcome.exc.type = "InvalidRequest"

C4_Witness ==
  /\ fn = "verify_checksum"
  /\ Returned
  /\ args.checksum_algorithm = "SHA256"
  /\ args.data = <<255>>

\* C5: every InvalidRequest raised has the code InvalidRequest, the
\* sender-fault flag set and the status code 400.
C5_InvalidRequestIsSenderFault ==
  (Raised /\ outcome.exc.type = "InvalidRequest") =>
    /\ outcome.exc.code = "InvalidRequest"
    /\ outcome.exc.sender_fault = TRUE
    /\ outcome.exc.status_code = 400

AllIn(s, C) == \A i \in 1..Len(s) : Char(s, i) \in C
Groups(s) == Split(s, ".", Len(s))
FourNumericGroups(s) ==
  Len(Groups(s)) = 4 /\ \A i \in 1..4 : Groups(s)[i] # "" /\ AllIn(Groups(s)[i], Digit)
DnsLabels(s) ==
  \A i \in 1..Len(Groups(s)) :
    LET label == Groups(s)[i]
    IN  /\ label # ""
        /\ AllIn(label, AlnumLower \cup {"-"})
        /\ Char(label, 1) \in AlnumLower
        /\ Char(label, Len(label)) \in AlnumLower

\* C6: is_bucket_name_valid(name) is true exactly when the name is 3 to 63
\* characters long, is not four dot-separated all-numeric groups, and is made
\* of labels of lowercase alphanumerics and hyphens, separated by single dots,
\* each beginning and ending with an alphanumeric.
C6_BucketNameGrammar ==
  (fn = "is_bucket_name_valid" /\ pc = "done") =>
    outcome.value = (/\ Len(args) \in BucketMinLen..BucketMaxLen
                     /\ ~FourNumericGroups(args)
                     /\ DnsLabels(args))

GrammarRegions == Regions \cup {"cn-north-1"}
OptRegion == {""} \cup {r \o "." : r \in GrammarRegions}
RecognizedHosts ==
  {s \o "." \o r \o l : s \in {"s3", "s3-website"}, r \in OptRegion,
                        l \in {"localhost", "localhost.localstack.cloud"}}
    \cup {"localhost.localstack.cloud"}
    \cup {s \o sep \o d \o r \o "amazonaws.com" \o cn :
            s \in {"s3", "s3-website", "s3-external-1"}, sep \in {".", "-"},
            d \in {"", "dualstack."}, r \in OptRegion, cn \in {"", ".cn"}}
IsBucketLabel(label) == label # "" /\ label # "s3" /\ AllIn(label, (WordChar \cup {"-", ":"}))
IsPort(p) ==
  p = "" \/ (Char(p, 1) = ":" /\ Len(p) <= PortMaxDigits + 1
             /\ AllIn(SubSeq(p, 2, Len(p)), Digit))
IsPath(p) ==
  p = "" \/ (Char(p, 1) = "/" /\ AllIn(p, WordChar \cup {"-", ".", " ", "/"}))
VirtualHostGrammar ==
  {scheme \o label \o "." \o host \o port \o path :
     scheme \in {"", "http://", "https://"},
     label \in {l \in VhostLabels : IsBucketLabel(l)},
     host \in RecognizedHosts \cap VhostHosts,
     port \in {p \in VhostPorts \cup {":"} : IsPort(p)},
     path \in {p \in VhostPaths : IsPath(p)}}

\* C7: forwarded_from_virtual_host_addressed_request(headers) is true exactly
\* when the x-s3-vhost-forwarded-for header is an optional scheme, a bucket
\* label other than the service prefix, a dot, a recognized S3 or localhost
\* host, an optional port and an optional path; it is false without the
\* header, whatever the Host header is.
C7_VirtualHostGrammar ==
  (fn = "forwarded_from_virtual_host_addressed_request" /\ pc = "done") =>
    outcome.value =
      (S3_VIRTUAL_HOST_FORWARDED_HEADER \in DOMAIN args
         /\ args[S3_VIRTUAL_HOST_FORWARDED_HEADER] \in VirtualHostGrammar)

\* C8: get_bucket_from_moto turns the store's MissingBucket into NoSuchBucket
\* with the requested name in BucketName, returns the store's bucket as it
\* is, and lets any other error of the store through as it is;
\* get_key_from_moto_bucket returns the bucket's key object as it is, and
\* raises NoSuchKey with the requested key in Key when the bucket has none.
C8_StoreNotFoundMapping ==
  /\ (fn = "get_bucket_from_moto" /\ pc = "done") =>
       IF reply.kind = "return"
       THEN outcome = Return(args.moto_backend[args.bucket])
       ELSE IF reply.exc.type = "MissingBucket"
            THEN /\ Raised
                 /\ outcome.exc.type = "NoSuchBucket"
                 /\ outcome.exc.BucketName = args.bucket
            ELSE outcome = reply
  /\ (fn = "get_key_from_moto_bucket" /\ pc = "done") =>
       IF args.key \in DOMAIN args.moto_bucket.keys
       THEN outcome = Return(args.moto_bucket.keys[args.key])
       ELSE /\ Raised
            /\ outcome.exc.type = "NoSuchKey"
            /\ outcome.exc.Key = args.key

C8_Witness ==
  /\ fn = "get_bucket_from_moto"
  /\ pc = "done"
  /\ reply.kind = "raise"
  /\ reply.exc.type = "MissingBucket"
  /\ args.bucket = "b2"
  /\ "b1" \in DOMAIN args.moto_backend
  /\ outcome.exc.BucketName = "b2"

\* C9: is_canned_acl_bucket_valid(token) is true exactly for the eight tokens
\* private, authenticated-read, aws-exec-read, bucket-owner-full-control,
\* bucket-owner-read, public-read, public-read-write and log-delivery-write,
\* compared as they are.
C9_CannedAclTokens ==
  (fn = "is_canned_acl_bucket_valid" /\ pc = "done") =>
    outcome.value =
      (args \in {"private", "authenticated-read", "aws-exec-read",
                 "bucket-owner-full-control", "bucket-owner-read", "public-read",
                 "public-read-write", "log-delivery-write"})

C9_Witness ==
  /\ fn = "is_canned_acl_bucket_valid"
  /\ pc = "done"
  /\ args = "log-delivery-write"
  /\ outcome.value = TRUE

\* C10: is_valid_canonical_id(s) accepts s exactly when s is 64 characters
\* long and every character is a hexadecimal digit.
C10_CanonicalIdIsHex64 ==
  (fn = "is_valid_canonical_id" /\ pc = "done") =>
    (Truthy(outcome.value) <=> (Len(args) = CanonicalIdLen /\ AllIn(args, HexDigit)))

====
